---- MODULE Spec2Model ----
(***************************************************************************)
(* Model of src/kudu/scripts/upgrade.py: the Cloudera Manager KUDU parcel  *)
(* upgrade script.  main() resolves a cluster (find_cluster), selects the  *)
(* upgrade candidate (get_best_upgrade_candidate_parcel) and drives it     *)
(* through download, distribution and activation                           *)
(* (ensure_parcel_activated, wait_for_parcel_stage).                       *)
(*                                                                         *)
(* The control plane is external: every answer it gives (cluster list,     *)
(* cluster lookup, parcel list, refreshed parcel status) is chosen         *)
(* nondeterministically when the call is made.                             *)
(*                                                                         *)
(* Strings that the code inspects character by character (parcel versions) *)
(* are sequences of one-character strings, ordered by code point.          *)
(***************************************************************************)
EXTENDS Integers, Sequences, FiniteSets, TLC

\* ------------------------------------------------------------------ bounds
\* Largest value of --max_time_per_stage explored (attempt budget per stage).
MaxTime == 2
\* Largest number of parcel records returned by cluster.get_all_parcels().
MaxParcels == 3
\* Largest number of clusters returned by api.get_all_clusters().
MaxClusters == 2

\* ----------------------------------------------------------- values, strings
\* Python's None for args.cluster (argparse default when --cluster is absent).
None == "<None>"

Digits == {"0", "1", "2", "3", "4", "5", "6", "7", "8", "9"}

\* Code point of a character (Python compares strings by code point).
Ord(c) ==
    CASE c = "-" -> 45
      [] c = "." -> 46
      [] c \in Digits -> 48 + (CHOOSE d \in 0..9 :
                                  c = <<"0","1","2","3","4","5","6","7","8","9">>[d + 1])
      [] OTHER -> 120

\* s1 < s2 for Python strings: first differing character decides, a proper
\* prefix is smaller.
RECURSIVE StrLess(_, _)
StrLess(s1, s2) ==
    IF s2 = <<>> THEN FALSE
    ELSE IF s1 = <<>> THEN TRUE
    ELSE IF Head(s1) = Head(s2) THEN StrLess(Tail(s1), Tail(s2))
    ELSE Ord(Head(s1)) < Ord(Head(s2))

StrGreater(s1, s2) == StrLess(s2, s1)

\* Number of consecutive digits of s starting at position i (regex \d+, greedy).
RECURSIVE DigitRun(_, _)
DigitRun(s, i) ==
    IF i <= Len(s) /\ s[i] \in Digits THEN 1 + DigitRun(s, i + 1) ELSE 0

\* The parcel version strings the control plane may report.
V_1_4_0_1  == <<"1", ".", "4", ".", "0", "-", "1">>
V_1_4_0_10 == <<"1", ".", "4", ".", "0", "-", "1", "0">>
V_1_4_0_2  == <<"1", ".", "4", ".", "0", "-", "2">>
V_1_4_0_3  == <<"1", ".", "4", ".", "0", "-", "3">>
V_1_4_1_1  == <<"1", ".", "4", ".", "1", "-", "1">>
V_1_4      == <<"1", ".", "4">>

\* Parcel stages of the control plane: the four the driver names, and one of
\* the transitional stages it does not name.
Stages == {"AVAILABLE_REMOTELY", "DOWNLOADING", "DOWNLOADED", "DISTRIBUTED", "ACTIVATED"}

\* Identities (product, version) of the parcels known to the control plane.
\* A (product, version) pair names one parcel.
ParcelIds ==
    << [product |-> "KUDU", version |-> V_1_4],
       [product |-> "KUDU", version |-> V_1_4_0_1],
       [product |-> "KUDU", version |-> V_1_4_0_10],
       [product |-> "KUDU", version |-> V_1_4_0_2],
       [product |-> "KUDU", version |-> V_1_4_1_1],
       [product |-> "CDH",  version |-> V_1_4_0_3] >>

Parcel(id, st) == [product |-> id.product, version |-> id.version, stage |-> st]

\* Lists of at most n records over the identities from the i-th on, each
\* identity at most once, every record at any stage.
RECURSIVE ListsFrom(_, _)
ListsFrom(i, n) ==
    IF i > Len(ParcelIds) \/ n = 0 THEN {<<>>}
    ELSE ListsFrom(i + 1, n)
         \cup {<<Parcel(ParcelIds[i], st)>> \o rest :
                 st \in Stages, rest \in ListsFrom(i + 1, n - 1)}

RECURSIVE Reverse(_)
Reverse(l) == IF l = <<>> THEN <<>> ELSE Append(Reverse(Tail(l)), Head(l))

\* The lists cluster.get_all_parcels() may return, in the order of ParcelIds:
\* at most MaxParcels records.  The control plane may also list them in the
\* opposite order.
ParcelLists == ListsFrom(1, MaxParcels)

\* The clusters of the control plane, in its listing order.
ClusterNames == <<"c1", "c2", "c3", "c4">>

\* The lists api.get_all_clusters() may return: the first n clusters.
ClusterLists == {SubSeq(ClusterNames, 1, n) : n \in 0..MaxClusters}

\* Values of --cluster: absent, empty, or a name.
ClusterArgs == {None, "", "c2"}

\* Values of --max_time_per_stage (type=int: any integer parses).
TimeBudgets == {0 - 1} \cup (0..MaxTime)

NoError == [kind |-> "None"]
NoParcel == [product |-> "", version |-> <<>>, stage |-> ""]
NoStatus == [product |-> "", version |-> <<>>, stage |-> "", errors |-> <<>>]

Targets == {"DOWNLOADED", "DISTRIBUTED", "ACTIVATED"}

\* --------------------------------------------------------------------- state
VARIABLES
    args,           \* parse_args(): [cluster, max_time_per_stage]
    pc,             \* position of main()
    all_clusters,   \* find_cluster: result of api.get_all_clusters()
    api_log,        \* cluster-resolution calls made on the API, in order
    cluster,        \* main: the resolved cluster
    parcels,        \* get_best_upgrade_candidate_parcel: cluster.get_all_parcels()
    parcel,         \* main: the chosen parcel record
    parcel_stage,   \* ensure_parcel_activated: local parcel_stage
    stage,          \* wait_for_parcel_stage: the awaited stage
    attempt,        \* wait_for_parcel_stage: loop variable (0 before the loop)
    new_parcel,     \* wait_for_parcel_stage: the last refreshed status
    requests,       \* transition requests issued on the parcel, in order
    polls,          \* cluster.get_parcel calls made, per awaited stage
    sleeps,         \* time.sleep(1) calls made
    error           \* the exception that ended the run, NoError if none

vars == <<args, pc, all_clusters, api_log, cluster, parcels, parcel, parcel_stage,
          stage, attempt, new_parcel, requests, polls, sleeps, error>>

Init ==
    /\ args \in [cluster : ClusterArgs, max_time_per_stage : TimeBudgets]
    /\ pc = "find_cluster"
    /\ all_clusters = <<>>
    /\ api_log = <<>>
    /\ cluster = ""
    /\ parcels = <<>>
    /\ parcel = NoParcel
    /\ parcel_stage = ""
    /\ stage = ""
    /\ attempt = 0
    /\ new_parcel = NoStatus
    /\ requests = <<>>
    /\ polls = [t \in Targets |-> 0]
    /\ sleeps = 0
    /\ error = NoError

\* An unhandled exception: the process ends with a non-zero exit status.
Raise(e) ==
    /\ error' = e
    /\ pc' = "done"

\* ------------------------------------------------------------- find_cluster
\* Python truthiness of args.cluster: None and "" are false.
Truthy(name) == name # None /\ name # ""

\* Mutant of ResolveFromList: with several clusters the first one is used.
ResolveFromList_FirstOfMany(l) ==
    IF Len(l) = 0 THEN [error |-> [kind |-> "MissingCluster"], cluster |-> ""]
    ELSE [error |-> NoError, cluster |-> l[1]]

\* Lines 129-135: the cluster chosen from the list of all clusters, or the
\* exception raised.
ResolveFromList(l) ==
    IF Len(l) = 0 THEN [error |-> [kind |-> "MissingCluster"], cluster |-> ""]
    ELSE IF Len(l) > 1 THEN [error |-> [kind |-> "AmbiguousCluster"], cluster |-> ""]
    ELSE [error |-> NoError, cluster |-> l[1]]

\* find_cluster(api, cluster_name), called from main line 143.  Whether
\* api.get_cluster(name) finds the cluster is the control plane's answer.
FindCluster ==
    /\ pc = "find_cluster"
    /\ UNCHANGED <<args, parcels, parcel, parcel_stage, stage, attempt, new_parcel,
                   requests, polls, sleeps>>
    /\ IF Truthy(args.cluster)
       THEN /\ api_log' = Append(api_log, "get_cluster")
            /\ all_clusters' = all_clusters
            /\ \E found \in BOOLEAN :
                 IF found
                 THEN /\ cluster' = args.cluster
                      /\ pc' = "get_best_upgrade_candidate_parcel"
                      /\ error' = error
                 ELSE /\ cluster' = cluster
                      /\ Raise([kind |-> "ApiError", cluster |-> args.cluster])
       ELSE /\ api_log' = Append(api_log, "get_all_clusters")
            /\ \E l \in ClusterLists :
                 LET out == ResolveFromList(l)
                 IN  /\ all_clusters' = l
                     /\ cluster' = out.cluster
                     /\ IF out.error = NoError
                        THEN /\ pc' = "get_best_upgrade_candidate_parcel"
                             /\ error' = error
                        ELSE Raise(out.error)

\* ------------------------------------------- get_best_upgrade_candidate_parcel
\* Mutant of ActivatedParcels: the product is not tested.
ActivatedParcels_AnyProduct(ps) ==
    SelectSeq(ps, LAMBDA p : p.stage = "ACTIVATED")

\* Lines 56-61: the KUDU parcels at stage ACTIVATED, in listing order.
ActivatedParcels(ps) ==
    SelectSeq(ps, LAMBDA p : p.product = "KUDU" /\ p.stage = "ACTIVATED")

\* Lines 56-61: the KUDU parcels at any other stage, in listing order.
CandidateParcels(ps) ==
    SelectSeq(ps, LAMBDA p : p.product = "KUDU" /\ p.stage # "ACTIVATED")

\* re.match("(\d+\.\d+\.\d+).*", full_version): group 1 when the string starts
\* with digits "." digits "." digits; matched = FALSE stands for the raise of
\* line 70.
get_release_version(full_version) ==
    LET IsDot(i) == i <= Len(full_version) /\ full_version[i] = "."
        n1 == DigitRun(full_version, 1)
        d1 == n1 + 1
        n2 == DigitRun(full_version, d1 + 1)
        d2 == d1 + n2 + 1
        n3 == DigitRun(full_version, d2 + 1)
    IN  IF n1 > 0 /\ IsDot(d1) /\ n2 > 0 /\ IsDot(d2) /\ n3 > 0
        THEN [matched |-> TRUE, release |-> SubSeq(full_version, 1, d2 + n3)]
        ELSE [matched |-> FALSE, release |-> full_version]

\* Mutant of release_versions_match: a version of parcel2 that does not parse
\* is compared as it is instead of raising.
release_versions_match_SecondUnparsed(parcel1, parcel2) ==
    LET r1 == get_release_version(parcel1.version)
        r2 == get_release_version(parcel2.version)
    IN  IF ~r1.matched
        THEN [raised |-> TRUE, version |-> parcel1.version, value |-> FALSE]
        ELSE [raised |-> FALSE, version |-> <<>>, value |-> r1.release = r2.release]

\* Line 72: parcel1's version is parsed first, then parcel2's; either parse may
\* raise (raised = TRUE, version = the string that did not parse).
release_versions_match(parcel1, parcel2) ==
    LET r1 == get_release_version(parcel1.version)
        r2 == get_release_version(parcel2.version)
    IN  IF ~r1.matched
        THEN [raised |-> TRUE, version |-> parcel1.version, value |-> FALSE]
        ELSE IF ~r2.matched
        THEN [raised |-> TRUE, version |-> parcel2.version, value |-> FALSE]
        ELSE [raised |-> FALSE, version |-> <<>>, value |-> r1.release = r2.release]

\* Mutant of MaxFrom: the comparison is reversed (min instead of max).
RECURSIVE MaxFrom_Min(_, _)
MaxFrom_Min(best, rest) ==
    IF rest = <<>> THEN best
    ELSE MaxFrom_Min(IF StrLess(Head(rest).version, best.version) THEN Head(rest) ELSE best,
                     Tail(rest))

\* max(list, key=lambda p: p.version): the first element no later one exceeds.
RECURSIVE MaxFrom(_, _)
MaxFrom(best, rest) ==
    IF rest = <<>> THEN best
    ELSE MaxFrom(IF StrGreater(Head(rest).version, best.version) THEN Head(rest) ELSE best,
                 Tail(rest))

\* Mutant of MaxByVersion: the first element is taken.
MaxByVersion_First(ps) == Head(ps)

MaxByVersion(ps) == MaxFrom(Head(ps), Tail(ps))

\* Mutant of IsUpgradeOf: downgrades are not filtered out.
IsUpgradeOf_NoDowngradeCheck(p, greatest_activated) == TRUE

\* Line 80: the second conjunct of the filter.
IsUpgradeOf(p, greatest_activated) == StrGreater(p.version, greatest_activated.version)

\* Lines 78-80: the list comprehension, element by element; the release match
\* is evaluated before the version comparison, and its raise ends the filter.
RECURSIVE FilterCandidates(_, _)
FilterCandidates(cands, greatest_activated) ==
    IF cands = <<>> THEN [raised |-> FALSE, version |-> <<>>, list |-> <<>>]
    ELSE LET p == Head(cands)
             m == release_versions_match(p, greatest_activated)
         IN  IF m.raised THEN [raised |-> TRUE, version |-> m.version, list |-> <<>>]
             ELSE LET rest == FilterCandidates(Tail(cands), greatest_activated)
                  IN  IF rest.raised THEN rest
                      ELSE IF m.value /\ IsUpgradeOf(p, greatest_activated)
                      THEN [rest EXCEPT !.list = <<p>> \o @]
                      ELSE rest

\* Lines 74-90 on the list returned by cluster.get_all_parcels(): the record
\* returned (error = NoError) or the exception raised.
SelectCandidate(ps) ==
    LET activated_parcels == ActivatedParcels(ps)
        candidate_parcels == CandidateParcels(ps)
    IN  IF Len(activated_parcels) > 0
        THEN LET greatest_activated == MaxByVersion(activated_parcels)
                 filtered == FilterCandidates(candidate_parcels, greatest_activated)
             IN  IF filtered.raised
                 THEN [error |-> [kind |-> "MalformedVersion", version |-> filtered.version],
                       result |-> NoParcel]
                 ELSE IF Len(filtered.list) > 0
                 THEN [error |-> NoError, result |-> MaxByVersion(filtered.list)]
                 ELSE [error |-> [kind |-> "NoCandidate",
                                  product |-> greatest_activated.product,
                                  version |-> greatest_activated.version],
                       result |-> NoParcel]
        ELSE [error |-> [kind |-> "NoBaseline"], result |-> NoParcel]

\* get_best_upgrade_candidate_parcel(cluster), called from main line 148.
get_best_upgrade_candidate_parcel ==
    /\ pc = "get_best_upgrade_candidate_parcel"
    /\ UNCHANGED <<args, all_clusters, api_log, cluster, parcel_stage, stage, attempt,
                   new_parcel, requests, polls, sleeps>>
    /\ \E l \in ParcelLists, backwards \in BOOLEAN :
         LET ps == IF backwards THEN Reverse(l) ELSE l
             out == SelectCandidate(ps)
         IN  /\ parcels' = ps
             /\ IF out.error = NoError
                THEN /\ parcel' = out.result
                     /\ pc' = "ensure_parcel_activated"
                     /\ error' = error
                ELSE /\ parcel' = parcel
                     /\ Raise(out.error)

\* ---------------------------------------------------- wait_for_parcel_stage
StageTimeout(target) ==
    [kind |-> "StageTimeout", product |-> parcel.product, version |-> parcel.version,
     stage |-> target, seconds |-> args.max_time_per_stage]

StageError(status) ==
    [kind |-> "StageError", errors |-> status.errors]

\* Mutant of HasNextAttempt: one attempt too many (xrange(1, max_time + 2)).
HasNextAttempt_OffByOne(att, max_time) == att + 1 <= max_time + 1

\* Mutant of HasNextAttempt: the budget is counted in half seconds.
HasNextAttempt_Doubled(att, max_time) == att + 1 <= 2 * max_time

\* Mutant of HasNextAttempt: the loop body runs before the budget is tested
\* (a do-while loop).
HasNextAttempt_AtLeastOnce(att, max_time) == att = 0 \/ att + 1 <= max_time

\* Line 93: xrange(1, max_time + 1) yields an attempt after `att` attempts.
HasNextAttempt(att, max_time) == att + 1 <= max_time

\* Mutant of PollOutcome: reported errors are not looked at.
PollOutcome_IgnoresErrors(status, target) ==
    IF status.stage = target THEN "return" ELSE "sleep"

\* Mutant of PollOutcome: any status without errors ends the wait.
PollOutcome_AnyCleanStatus(status, target) ==
    IF status.stage = target \/ status.errors = <<>> THEN "return"
    ELSE "raise"

\* Mutant of PollOutcome: the error list is tested before the stage.
PollOutcome_ErrorsFirst(status, target) ==
    IF status.errors # <<>> THEN "raise"
    ELSE IF status.stage = target THEN "return"
    ELSE "sleep"

\* Position of a stage in the lifecycle.
LifecycleOrder(st) ==
    CASE st = "AVAILABLE_REMOTELY" -> 1
      [] st = "DOWNLOADING"        -> 2
      [] st = "DOWNLOADED"         -> 3
      [] st = "DISTRIBUTED"        -> 4
      [] OTHER                     -> 5

\* Mutant of PollOutcome: a stage at or beyond the awaited one ends the wait.
PollOutcome_ReachedOrBeyond(status, target) ==
    IF LifecycleOrder(status.stage) >= LifecycleOrder(target) THEN "return"
    ELSE IF status.errors # <<>> THEN "raise"
    ELSE "sleep"

\* Lines 95-100: what one iteration does with the refreshed status.
PollOutcome(status, target) ==
    IF status.stage = target THEN "return"
    ELSE IF status.errors # <<>> THEN "raise"
    ELSE "sleep"

\* Mutant of EnterWait: the attempts of the earlier waits count against the
\* budget of this one (one budget for the whole run).
EnterWait_SharedBudget(target) ==
    /\ stage' = target
    /\ attempt' = attempt
    /\ IF HasNextAttempt(attempt, args.max_time_per_stage)
       THEN /\ pc' = "wait"
            /\ error' = error
       ELSE Raise(StageTimeout(target))

\* Lines 92-93: wait_for_parcel_stage(cluster, parcel, target, max_time_per_stage)
\* is entered; with an empty xrange the else clause of the loop raises at once.
EnterWait(target) ==
    /\ stage' = target
    /\ attempt' = 0
    /\ IF HasNextAttempt(0, args.max_time_per_stage)
       THEN /\ pc' = "wait"
            /\ error' = error
       ELSE Raise(StageTimeout(target))

\* Mutant of AfterWait: after the download the distribution block is skipped.
AfterWait_SkipsDistribution(target) ==
    CASE target = "DOWNLOADED"  -> "L119"
      [] target = "DISTRIBUTED" -> "L119"
      [] OTHER                  -> "done"

\* Where ensure_parcel_activated continues when the wait for `target` returns.
AfterWait(target) ==
    CASE target = "DOWNLOADED"  -> "L113"
      [] target = "DISTRIBUTED" -> "L119"
      [] OTHER                  -> "done"

\* Lines 93-103: one iteration of the polling loop; the iteration that uses up
\* the budget runs into the loop's else clause.
PollParcel ==
    /\ pc = "wait"
    /\ UNCHANGED <<args, all_clusters, api_log, cluster, parcels, parcel, stage, requests>>
    /\ attempt' = attempt + 1
    /\ polls' = [polls EXCEPT ![stage] = @ + 1]
    /\ \E st \in Stages, errs \in {<<>>, <<"error">>} :
         LET status == [product |-> parcel.product, version |-> parcel.version,
                        stage |-> st, errors |-> errs]
             outcome == PollOutcome(status, stage)
         IN  /\ new_parcel' = status
             /\ sleeps' = IF outcome = "sleep" THEN sleeps + 1 ELSE sleeps
             /\ parcel_stage' = IF outcome = "return" /\ stage # "ACTIVATED"
                                THEN stage ELSE parcel_stage
             /\ CASE outcome = "return" -> /\ pc' = AfterWait(stage)
                                           /\ error' = error
                  [] outcome = "raise"  -> Raise(StageError(status))
                  [] OTHER ->
                        IF HasNextAttempt(attempt', args.max_time_per_stage)
                        THEN /\ pc' = pc
                             /\ error' = error
                        ELSE Raise(StageTimeout(stage))

\* -------------------------------------------------- ensure_parcel_activated
\* Mutant of ensure_parcel_activated: the lifecycle is started from the first
\* stage whatever the record's stage.
ensure_parcel_activated_Restarts ==
    /\ pc = "ensure_parcel_activated"
    /\ parcel_stage' = "AVAILABLE_REMOTELY"
    /\ parcels' = <<>>
    /\ pc' = "L107"
    /\ UNCHANGED <<args, all_clusters, api_log, cluster, parcel, stage, attempt,
                   new_parcel, requests, polls, sleeps, error>>

\* Lines 105-106: the call from main line 151; the selector's locals are gone.
ensure_parcel_activated ==
    /\ pc = "ensure_parcel_activated"
    /\ parcel_stage' = parcel.stage
    /\ parcels' = <<>>
    /\ pc' = "L107"
    /\ UNCHANGED <<args, all_clusters, api_log, cluster, parcel, stage, attempt,
                   new_parcel, requests, polls, sleeps, error>>

\* Lines 107-110.
StartDownload ==
    /\ pc = "L107"
    /\ parcel_stage = "AVAILABLE_REMOTELY"
    /\ requests' = Append(requests, "start_download")
    /\ EnterWait("DOWNLOADED")
    /\ UNCHANGED <<args, all_clusters, api_log, cluster, parcels, parcel, parcel_stage,
                   new_parcel, polls, sleeps>>

\* Line 107, condition false.
SkipDownload ==
    /\ pc = "L107"
    /\ parcel_stage # "AVAILABLE_REMOTELY"
    /\ pc' = "L113"
    /\ UNCHANGED <<args, all_clusters, api_log, cluster, parcels, parcel, parcel_stage,
                   stage, attempt, new_parcel, requests, polls, sleeps, error>>

\* Lines 113-116.
StartDistribution ==
    /\ pc = "L113"
    /\ parcel_stage = "DOWNLOADED"
    /\ requests' = Append(requests, "start_distribution")
    /\ EnterWait("DISTRIBUTED")
    /\ UNCHANGED <<args, all_clusters, api_log, cluster, parcels, parcel, parcel_stage,
                   new_parcel, polls, sleeps>>

\* Line 113, condition false.
SkipDistribution ==
    /\ pc = "L113"
    /\ parcel_stage # "DOWNLOADED"
    /\ pc' = "L119"
    /\ UNCHANGED <<args, all_clusters, api_log, cluster, parcels, parcel, parcel_stage,
                   stage, attempt, new_parcel, requests, polls, sleeps, error>>

\* Lines 119-122.
Activate ==
    /\ pc = "L119"
    /\ parcel_stage = "DISTRIBUTED"
    /\ requests' = Append(requests, "activate")
    /\ EnterWait("ACTIVATED")
    /\ UNCHANGED <<args, all_clusters, api_log, cluster, parcels, parcel, parcel_stage,
                   new_parcel, polls, sleeps>>

\* Line 119, condition false: ensure_parcel_activated returns, main ends.
SkipActivate ==
    /\ pc = "L119"
    /\ parcel_stage # "DISTRIBUTED"
    /\ pc' = "done"
    /\ UNCHANGED <<args, all_clusters, api_log, cluster, parcels, parcel, parcel_stage,
                   stage, attempt, new_parcel, requests, polls, sleeps, error>>

\* ---------------------------------------------------------------------- main
Next ==
    \/ FindCluster
    \/ get_best_upgrade_candidate_parcel
    \/ ensure_parcel_activated
    \/ StartDownload
    \/ SkipDownload
    \/ StartDistribution
    \/ SkipDistribution
    \/ Activate
    \/ SkipActivate
    \/ PollParcel

Spec == Init /\ [][Next]_vars

\* ------------------------------------- ensure_parcel_activated on its own
\* ensure_parcel_activated(cluster, parcel, max_time_per_stage) called with any
\* parcel record and any budget.
DriverInit ==
    /\ args \in [cluster : {None}, max_time_per_stage : TimeBudgets]
    /\ pc = "ensure_parcel_activated"
    /\ all_clusters = <<>>
    /\ api_log = <<>>
    /\ cluster = "c1"
    /\ parcels = <<>>
    /\ parcel \in {Parcel(ParcelIds[i], st) : i \in DOMAIN ParcelIds, st \in Stages}
    /\ parcel_stage = ""
    /\ stage = ""
    /\ attempt = 0
    /\ new_parcel = NoStatus
    /\ requests = <<>>
    /\ polls = [t \in Targets |-> 0]
    /\ sleeps = 0
    /\ error = NoError

DriverNext ==
    \/ ensure_parcel_activated
    \/ StartDownload
    \/ SkipDownload
    \/ StartDistribution
    \/ SkipDistribution
    \/ Activate
    \/ SkipActivate
    \/ PollParcel

DriverSpec == DriverInit /\ [][DriverNext]_vars

\* The interpreter keeps running the function until it returns or raises:
\* every API call and every sleep returns.
DriverFairSpec == DriverSpec /\ WF_vars(DriverNext)

\* =================================================================== claims
\* Words of the claims, stated on the state.

\* get_best_upgrade_candidate_parcel has returned a record and main has not yet
\* called ensure_parcel_activated: `parcels` is the list it was given.
SelectionReturned == pc = "ensure_parcel_activated"

SelectionRaised ==
    pc = "done" /\ error.kind \in {"NoBaseline", "NoCandidate", "MalformedVersion"}

SelectionDone == SelectionReturned \/ SelectionRaised

KuduRecords == {parcels[i] : i \in {j \in DOMAIN parcels : parcels[j].product = "KUDU"}}

ActivatedRecords == {p \in KuduRecords : p.stage = "ACTIVATED"}

NonActivatedRecords == {p \in KuduRecords : p.stage # "ACTIVATED"}

WellFormed(v) == get_release_version(v).matched

\* The activated record with the lexicographically greatest version.
IsBaseline(b) ==
    b \in ActivatedRecords /\ \A a \in ActivatedRecords : ~StrGreater(a.version, b.version)

\* p is a non-activated KUDU record of b's release with a greater version.
IsHigherSameRelease(p, b) ==
    /\ p \in NonActivatedRecords
    /\ WellFormed(p.version) /\ WellFormed(b.version)
    /\ get_release_version(p.version).release = get_release_version(b.version).release
    /\ StrGreater(p.version, b.version)

HigherSameRelease(b) == {p \in NonActivatedRecords : IsHigherSameRelease(p, b)}

NoRequestOrPoll == requests = <<>> /\ \A t \in Targets : polls[t] = 0

TotalPolls == polls["DOWNLOADED"] + polls["DISTRIBUTED"] + polls["ACTIVATED"]

\* ---- C1
\* C1 (as claimed): whenever main ends without an error, the last poll of the
\* chosen parcel, made while waiting for ACTIVATED, observed stage ACTIVATED.
C1_ExitZeroOnlyAfterActivated ==
    (pc = "done" /\ error = NoError) =>
        /\ polls["ACTIVATED"] >= 1
        /\ new_parcel.product = parcel.product
        /\ new_parcel.version = parcel.version
        /\ new_parcel.stage = "ACTIVATED"

\* ---- C2
C2_Pre ==
    /\ SelectionDone
    /\ Cardinality(ActivatedRecords) = 1
    /\ \E b \in ActivatedRecords : HigherSameRelease(b) # {}

C2_Returned ==
    /\ error = NoError
    /\ \E b \in ActivatedRecords :
         /\ parcel \in HigherSameRelease(b)
         /\ \A q \in HigherSameRelease(b) : ~StrGreater(q.version, parcel.version)

\* C2 (as claimed): with exactly one ACTIVATED KUDU record and at least one
\* non-ACTIVATED record of the same release and a greater version, selection
\* returns the greatest such record.
C2_Original == C2_Pre => C2_Returned

\* C2 (amended): the same, provided every non-ACTIVATED KUDU record has a
\* version that starts with a MAJOR.MINOR.PATCH triplet.
C2_GreatestCandidateReturned ==
    (C2_Pre /\ \A p \in NonActivatedRecords : WellFormed(p.version)) => C2_Returned

\* Two candidates qualify, so that the choice between them is made.
C2_Witness ==
    /\ SelectionReturned
    /\ C2_Pre
    /\ \A p \in NonActivatedRecords : WellFormed(p.version)
    /\ \E b \in ActivatedRecords : Cardinality(HigherSameRelease(b)) >= 2

\* ---- C6
C6_Pre ==
    /\ SelectionDone
    /\ ActivatedRecords # {}
    /\ \A b \in ActivatedRecords : IsBaseline(b) => HigherSameRelease(b) = {}

C6_NoCandidateRaised ==
    /\ error.kind = "NoCandidate"
    /\ \E b \in ActivatedRecords :
         IsBaseline(b) /\ error.product = b.product /\ error.version = b.version

\* C6 (as claimed): with an ACTIVATED KUDU record and no non-ACTIVATED KUDU
\* record of the baseline's release with a greater version, selection fails
\* with the no-candidate error naming the baseline.
C6_Original == C6_Pre => C6_NoCandidateRaised

\* The versions the filter of lines 78-80 parses all start with a triplet:
\* there is no non-ACTIVATED KUDU record, or the baseline's version and every
\* non-ACTIVATED KUDU record's version are well formed.
C6_VersionsParse ==
    \/ NonActivatedRecords = {}
    \/ /\ \A p \in NonActivatedRecords : WellFormed(p.version)
       /\ \A b \in ActivatedRecords : IsBaseline(b) => WellFormed(b.version)

\* C6 (amended): the same, provided the versions the filter parses are well
\* formed; otherwise selection fails with the malformed-version error.
C6_NoCandidateError ==
    /\ (C6_Pre /\ C6_VersionsParse) => C6_NoCandidateRaised
    /\ (C6_Pre /\ ~C6_VersionsParse) => error.kind = "MalformedVersion"

\* A candidate of the baseline's release exists, but it is a downgrade.
C6_Witness ==
    /\ C6_Pre
    /\ C6_VersionsParse
    /\ error.kind = "NoCandidate"
    /\ \E b \in ActivatedRecords, p \in NonActivatedRecords :
         /\ get_release_version(p.version).release = get_release_version(b.version).release
         /\ StrLess(p.version, b.version)

\* ---- C7
\* C7: with no KUDU record at stage ACTIVATED, selection fails with the
\* no-baseline error, and the run has issued no transition request and no poll
\* (the run is over: a raised error ends main).
C7_NoBaselineError ==
    /\ (SelectionDone /\ ActivatedRecords = {}) =>
          /\ error = [kind |-> "NoBaseline"]
          /\ pc = "done"
    /\ error.kind = "NoBaseline" => (pc = "done" /\ NoRequestOrPoll)

\* No KUDU record is activated while a malformed KUDU version and an ACTIVATED
\* record of another product are listed.
C7_Witness ==
    /\ error.kind = "NoBaseline"
    /\ \E p \in NonActivatedRecords : ~WellFormed(p.version)
    /\ \E i \in DOMAIN parcels :
         parcels[i].product # "KUDU" /\ parcels[i].stage = "ACTIVATED"

\* ---- C9
\* find_cluster has run.
ClusterResolved == api_log # <<>>

NameGiven == args.cluster \notin {None, ""}

ClusterErrors == {"MissingCluster", "AmbiguousCluster", "ApiError"}

\* C9: without a name, zero clusters raise the missing-cluster error, exactly
\* one cluster is returned, two or more raise the ambiguous-cluster error; with
\* a name, the result is that of the direct lookup and the list of all clusters
\* is never fetched.  (An empty --cluster value is no name: line 126 tests
\* truthiness.)
C9_FindCluster ==
    ClusterResolved =>
        /\ ~NameGiven =>
              /\ api_log = <<"get_all_clusters">>
              /\ Len(all_clusters) = 0 => (error = [kind |-> "MissingCluster"] /\ pc = "done")
              /\ Len(all_clusters) = 1 =>
                    (cluster = all_clusters[1] /\ error.kind \notin ClusterErrors)
              /\ Len(all_clusters) >= 2 => (error = [kind |-> "AmbiguousCluster"] /\ pc = "done")
        /\ NameGiven =>
              /\ api_log = <<"get_cluster">>
              /\ all_clusters = <<>>
              /\ \/ cluster = args.cluster /\ error.kind \notin ClusterErrors
                 \/ error.kind = "ApiError" /\ pc = "done"
              /\ error.kind \notin {"MissingCluster", "AmbiguousCluster"}

\* The sole cluster was returned without a name, and selection went on.
C9_Witness ==
    /\ ~NameGiven
    /\ Len(all_clusters) = 1
    /\ cluster = all_clusters[1]
    /\ pc = "ensure_parcel_activated"

\* ---- words of the driver claims
Budget == args.max_time_per_stage

RequestFor(t) ==
    CASE t = "DOWNLOADED"  -> "start_download"
      [] t = "DISTRIBUTED" -> "start_distribution"
      [] OTHER             -> "activate"

TargetOf(r) ==
    CASE r = "start_download"     -> "DOWNLOADED"
      [] r = "start_distribution" -> "DISTRIBUTED"
      [] OTHER                    -> "ACTIVATED"

OrderOf(r) ==
    CASE r = "start_download"     -> 1
      [] r = "start_distribution" -> 2
      [] r = "activate"           -> 3
      [] OTHER                    -> 0

Count(seq, x) == Cardinality({i \in DOMAIN seq : seq[i] = x})

Last(seq) == seq[Len(seq)]

\* The last poll of the wait for t observed stage t.
JustObserved(t) == stage = t /\ attempt >= 1 /\ new_parcel.stage = t

\* ---- C3
C3_State ==
    \A t \in Targets :
        (JustObserved(t) /\ new_parcel.errors = <<>> /\ Budget >= 1) =>
            /\ attempt <= Budget
            /\ polls[t] = attempt
            /\ Count(requests, RequestFor(t)) = 1
            /\ Last(requests) = RequestFor(t)
            /\ error = NoError
            /\ t = "ACTIVATED" => pc = "done"
            /\ t # "ACTIVATED" => pc \notin {"done", "wait"}

C3_Step ==
    /\ \A t \in Targets \ {"ACTIVATED"} :
          (JustObserved(t) /\ new_parcel.errors = <<>>) =>
              /\ requests' = Append(requests,
                                    IF t = "DOWNLOADED" THEN "start_distribution"
                                    ELSE "activate")
              /\ polls' = polls
    /\ \A t \in Targets :
          polls'[t] # polls[t] => (pc = "wait" /\ stage = t /\ polls'[t] = attempt + 1)

\* C3: when the k-th poll of a step (1 <= k <= budget) is the first to report
\* the step's target stage, and no poll reports errors, the step has issued
\* exactly one transition request, has polled exactly k times and polls no
\* more; the driver then issues the next stage's request, or has returned
\* successfully when the target is ACTIVATED.
C3_StepSucceedsOnKthPoll == []C3_State /\ [][C3_Step]_vars

\* A parcel entered at DOWNLOADED reaches DISTRIBUTED on the 2nd poll.
C3_Witness ==
    /\ parcel.stage = "DOWNLOADED"
    /\ JustObserved("DISTRIBUTED")
    /\ new_parcel.errors = <<>>
    /\ attempt = 2
    /\ requests = <<"start_distribution">>

\* ---- C4
\* All polls the budget allows have been made in the wait for t and the last
\* one reported neither t nor errors (an earlier one would have ended the wait).
BudgetUsedUp(t) ==
    /\ stage = t
    /\ attempt = Budget
    /\ attempt >= 1 => (new_parcel.stage # t /\ new_parcel.errors = <<>>)

\* C4: when none of the N polls of a step observes the target stage T or
\* carries errors, the run fails with the stage-timeout error naming the parcel
\* and T after exactly N polls, and no request for a later stage is issued.
C4_StageTimeout ==
    /\ \A t \in Targets :
          BudgetUsedUp(t) =>
              /\ error = [kind |-> "StageTimeout", product |-> parcel.product,
                          version |-> parcel.version, stage |-> t, seconds |-> Budget]
              /\ pc = "done"
              /\ polls[t] = Budget
              /\ Last(requests) = RequestFor(t)
              /\ \A i \in DOMAIN requests : OrderOf(requests[i]) <= OrderOf(RequestFor(t))
    /\ (error.kind = "StageTimeout" /\ Budget >= 0) =>
          /\ error.stage = stage
          /\ polls[stage] = Budget
          /\ stage = "DISTRIBUTED" => Count(requests, "activate") = 0

\* A parcel entered at DOWNLOADED stays short of DISTRIBUTED for both polls.
C4_Witness ==
    /\ parcel.stage = "DOWNLOADED"
    /\ BudgetUsedUp("DISTRIBUTED")
    /\ Budget = 2
    /\ new_parcel.stage = "DOWNLOADED"
    /\ error.kind = "StageTimeout"

\* ---- C5
\* The last poll of the current wait reported a non-empty error list.
PolledErrors == attempt >= 1 /\ new_parcel.errors # <<>>

C5_Aborted ==
    /\ error = [kind |-> "StageError", errors |-> new_parcel.errors]
    /\ pc = "done"
    /\ sleeps = TotalPolls - Len(requests)

\* C5 (as claimed): a poll that reports errors fails the wait on that poll,
\* whatever stage it reports.
C5_Original == PolledErrors => C5_Aborted

\* C5 (amended): a poll that reports errors and a stage other than the awaited
\* one fails the wait with the stage-error on that poll: the run is over, the
\* poll was not followed by a sleep, and no further poll or request is made.
C5_ErrorsAbort == (PolledErrors /\ new_parcel.stage # stage) => C5_Aborted

\* The 2nd poll of the wait for DISTRIBUTED reports errors at a later stage.
C5_Witness ==
    /\ PolledErrors
    /\ stage = "DISTRIBUTED"
    /\ attempt = 2
    /\ new_parcel.stage = "ACTIVATED"
    /\ error.kind = "StageError"

\* ---- C8
C8_State ==
    /\ \A i \in DOMAIN requests : OrderOf(requests[i]) >= 1
    /\ \A i, j \in DOMAIN requests : i < j => OrderOf(requests[i]) < OrderOf(requests[j])

C8_Step ==
    /\ requests' # requests =>
          /\ \E r \in {"start_download", "start_distribution", "activate"} :
                requests' = Append(requests, r)
          /\ error = NoError
          /\ requests # <<>> =>
                /\ stage = TargetOf(Last(requests))
                /\ polls[stage] >= 1
                /\ new_parcel.stage = stage
    /\ error # NoError => requests' = requests

\* C8: each transition request is issued at most once, in the order download,
\* distribution, activation; a request after the first is issued only when a
\* poll has observed the previous step's target stage; after a failure no
\* request of any kind is issued.
C8_RequestsOnceInOrder == []C8_State /\ [][C8_Step]_vars

\* All three requests were issued and the run ended.
C8_Witness ==
    /\ requests = <<"start_download", "start_distribution", "activate">>
    /\ pc = "done"
    /\ error = NoError

\* ---- C10
DriverRunning == pc \in {"ensure_parcel_activated", "L107", "L113", "L119", "wait"}

NonNegative(n) == IF n < 0 THEN 0 ELSE n

\* C10 (as claimed, the bound): once the driver has issued a request, every
\* step has made at most max_time_per_stage polls and the run at most
\* 3 * max_time_per_stage.
C10_Original ==
    requests # <<>> =>
        /\ \A t \in Targets : polls[t] <= Budget
        /\ TotalPolls <= 3 * Budget

C10_Bound ==
    /\ \A t \in Targets : polls[t] <= NonNegative(Budget)
    /\ TotalPolls <= 3 * NonNegative(Budget)

\* C10 (amended): under any behaviour of the control plane the driver ends, by
\* returning or by raising; every step makes at most max(max_time_per_stage, 0)
\* polls and the run at most 3 * max(max_time_per_stage, 0).
C10_TerminatesWithinBudget == []C10_Bound /\ (DriverRunning ~> pc = "done")

\* Every step used its whole budget of 2 or more polls.
C10_Witness ==
    /\ pc = "done"
    /\ Budget >= 2
    /\ TotalPolls = 3 * Budget

\* ---- C11
\* The request the stage of the record passed in calls for; "" when it calls
\* for none.
FirstRequestFor(st) ==
    CASE st = "AVAILABLE_REMOTELY" -> "start_download"
      [] st = "DOWNLOADED"         -> "start_distribution"
      [] st = "DISTRIBUTED"        -> "activate"
      [] OTHER                     -> ""

\* C11: the first transition request is the one the stage of the record passed
\* in calls for, and no poll precedes it; a record at DOWNLOADED causes no
\* download request, a record at DISTRIBUTED no download and no distribution
\* request, a record at ACTIVATED no request and no poll at all.
C11_ResumesFromRecordStage ==
    /\ requests = <<>> => TotalPolls = 0
    /\ requests # <<>> => requests[1] = FirstRequestFor(parcel.stage)
    /\ parcel.stage = "DOWNLOADED" => Count(requests, "start_download") = 0
    /\ parcel.stage = "DISTRIBUTED" =>
          Count(requests, "start_download") + Count(requests, "start_distribution") = 0
    /\ parcel.stage = "ACTIVATED" => NoRequestOrPoll
    /\ (pc = "done" /\ FirstRequestFor(parcel.stage) # "") => requests # <<>>

\* A record at DISTRIBUTED was activated with the activation request alone.
C11_Witness ==
    /\ parcel.stage = "DISTRIBUTED"
    /\ requests = <<"activate">>
    /\ pc = "done"
    /\ error = NoError

\* ---- C12
C12_State ==
    \A t \in Targets :
        JustObserved(t) =>
            /\ error = NoError
            /\ pc = (CASE t = "DOWNLOADED"  -> "L113"
                       [] t = "DISTRIBUTED" -> "L119"
                       [] OTHER             -> "done")
            /\ sleeps = TotalPolls - Len(requests)

C12_Step ==
    \A t \in Targets : JustObserved(t) => (polls'[t] = polls[t] /\ sleeps' = sleeps)

\* C12: a poll that observes the awaited stage makes the wait succeed on that
\* poll, whatever the error list of the status and however many attempts
\* remain: that poll is followed by no sleep and the wait polls no more.
C12_TargetObservedSucceeds == []C12_State /\ [][C12_Step]_vars

\* The last allowed poll observes the target stage and reports errors.
C12_Witness ==
    /\ JustObserved("DISTRIBUTED")
    /\ new_parcel.errors # <<>>
    /\ attempt = Budget
    /\ Budget >= 2
    /\ pc = "L119"

\* ---- C13
\* C13: each step has its own budget: while a wait goes on, only its own polls
\* have been counted and fewer than max_time_per_stage of them were made,
\* whatever the earlier steps used; a wait times out only when it has made
\* max_time_per_stage polls itself (none when the budget is below 1).
C13_OwnBudgetPerStep ==
    /\ pc = "wait" => (attempt = polls[stage] /\ polls[stage] < Budget)
    /\ stage \in Targets => attempt = polls[stage]
    /\ error.kind = "StageTimeout" => polls[error.stage] = NonNegative(Budget)

\* Every step succeeded on its last allowed poll, the budget being 2 or more.
C13_Witness ==
    /\ pc = "done"
    /\ error = NoError
    /\ Budget >= 2
    /\ requests = <<"start_download", "start_distribution", "activate">>
    /\ \A t \in Targets : polls[t] = Budget

\* ---- C16
\* C16: with max_time_per_stage 0 or negative, a record at AVAILABLE_REMOTELY,
\* DOWNLOADED or DISTRIBUTED gets the request for its stage, no poll is made,
\* and the run fails with the stage-timeout error: it never succeeds and never
\* issues a second request.
C16_NoBudget ==
    (Budget <= 0 /\ FirstRequestFor(parcel.stage) # "") =>
        /\ TotalPolls = 0
        /\ Len(requests) <= 1
        /\ pc \in {"ensure_parcel_activated", "L107", "L113", "L119", "done"}
        /\ pc = "done" =>
              /\ requests = <<FirstRequestFor(parcel.stage)>>
              /\ error = [kind |-> "StageTimeout", product |-> parcel.product,
                          version |-> parcel.version,
                          stage |-> TargetOf(FirstRequestFor(parcel.stage)),
                          seconds |-> Budget]
        /\ requests # <<>> => pc = "done"

\* With a negative budget the distribution request is issued and times out.
C16_Witness ==
    /\ Budget < 0
    /\ parcel.stage = "DOWNLOADED"
    /\ requests = <<"start_distribution">>
    /\ TotalPolls = 0
    /\ error.kind = "StageTimeout"

\* ---- C17
\* The last poll of the current wait reported a stage other than the awaited
\* one, and no errors.
PolledOtherStage == attempt >= 1 /\ new_parcel.stage # stage /\ new_parcel.errors = <<>>

\* C17: a wait succeeds only on a poll that observes exactly the awaited stage.
\* A poll that reports any other stage (a later one included) without errors
\* leaves the wait going while attempts remain, and on the last attempt ends
\* it with the stage-timeout error, after which no request is issued.
C17_OnlyExactStageSucceeds ==
    /\ (stage \in Targets /\ attempt >= 1 /\ pc # "wait" /\ error = NoError) =>
          new_parcel.stage = stage
    /\ PolledOtherStage =>
          /\ Last(requests) = RequestFor(stage)
          /\ \/ pc = "wait" /\ attempt < Budget /\ error = NoError
             \/ /\ pc = "done"
                /\ attempt = Budget
                /\ error = [kind |-> "StageTimeout", product |-> parcel.product,
                            version |-> parcel.version, stage |-> stage,
                            seconds |-> Budget]

\* The wait for DOWNLOADED saw ACTIVATED on its last poll and timed out.
C17_Witness ==
    /\ PolledOtherStage
    /\ stage = "DOWNLOADED"
    /\ new_parcel.stage = "ACTIVATED"
    /\ attempt = 2
    /\ error.kind = "StageTimeout"
    /\ requests = <<"start_download">>

\* ---- C14
MalformedListed == \E p \in KuduRecords : ~WellFormed(p.version)

C14_Aborted ==
    /\ error.kind = "MalformedVersion"
    /\ ~WellFormed(error.version)
    /\ pc = "done"
    /\ NoRequestOrPoll

\* C14 (as claimed): whenever any KUDU record, activated or not, has a version
\* that does not start with a MAJOR.MINOR.PATCH triplet, selection fails with
\* the malformed-version error before any transition request is issued.
C14_Original == (SelectionDone /\ MalformedListed) => C14_Aborted

\* A malformed version is among those the filter of lines 78-80 parses: there
\* are an ACTIVATED and a non-ACTIVATED KUDU record, and the baseline's version
\* or a non-ACTIVATED record's version is malformed.
C14_MalformedParsed ==
    /\ ActivatedRecords # {}
    /\ NonActivatedRecords # {}
    /\ \/ \E p \in NonActivatedRecords : ~WellFormed(p.version)
       \/ \E b \in ActivatedRecords : IsBaseline(b) /\ ~WellFormed(b.version)

\* C14 (amended): selection fails with the malformed-version error, before any
\* transition request or poll, exactly when a malformed version is among those
\* the filter parses; a malformed version that is not parsed (no ACTIVATED KUDU
\* record, no non-ACTIVATED KUDU record, or a malformed ACTIVATED record that
\* is not the baseline) does not raise it.
C14_MalformedVersionError ==
    /\ (SelectionDone /\ C14_MalformedParsed) => C14_Aborted
    /\ (SelectionDone /\ ~C14_MalformedParsed) => error.kind # "MalformedVersion"
    /\ error.kind = "MalformedVersion" => (pc = "done" /\ NoRequestOrPoll)

\* The baseline alone is malformed and a well-formed candidate is listed.
C14_Witness ==
    /\ SelectionDone
    /\ C14_Aborted
    /\ \A p \in NonActivatedRecords : WellFormed(p.version)
    /\ \E b \in ActivatedRecords : IsBaseline(b) /\ ~WellFormed(b.version)

\* ---- C15
\* C15: with one or more ACTIVATED KUDU records the baseline is the one of the
\* greatest version (the no-candidate error names it), and a returned record
\* is a KUDU record, not at ACTIVATED, of the baseline's release, with a
\* version greater than that of every ACTIVATED KUDU record.
C15_NeverDowngrade ==
    /\ SelectionReturned =>
          /\ ActivatedRecords # {}
          /\ parcel.product = "KUDU"
          /\ parcel.stage # "ACTIVATED"
          /\ \E i \in DOMAIN parcels : parcels[i] = parcel
          /\ \A b \in ActivatedRecords : IsBaseline(b) => IsHigherSameRelease(parcel, b)
          /\ \A a \in ActivatedRecords : StrGreater(parcel.version, a.version)
    /\ error.kind = "NoCandidate" =>
          \E b \in ActivatedRecords : IsBaseline(b) /\ error.version = b.version

\* Two KUDU records are activated and a record above both is returned.
C15_Witness ==
    /\ SelectionReturned
    /\ Cardinality(ActivatedRecords) >= 2

====
